---- MODULE Spec2Model ----
(***************************************************************************)
(* A model of class Index of src/nn.py: a mapping from a vocabulary to     *)
(* integers, with its encode and decode operations.                        *)
(*                                                                         *)
(* A Python dict is a TLA+ function; a list or a 1-dimensional array is a  *)
(* sequence (TLA+ position p is Python position p - 1); a 2-dimensional    *)
(* array is a sequence of rows.  A call's outcome is a record: kind "ok"   *)
(* with the returned value, or kind "raise" with the exception's type.     *)
(***************************************************************************)
EXTENDS Integers, Sequences, FiniteSets, TLC

\* The objects a vocabulary or an input may hold.
Objects == {"a", "b", "c"}

\* Bounds of the model.
MaxVocabLen == 3
MaxStart == 1
MaxSeqLen == 3
MaxRows == 2
MaxRowLen == 2

VARIABLES
    vocab,            \* the constructor's argument `vocab`
    start,            \* self.start
    object_to_index,  \* self.object_to_index
    index_to_object,  \* self.index_to_object
    vocab_size,       \* self.vocab_size
    not_in_index,     \* self.not_in_index
    op,               \* the method that ran last, "none" before any call
    arg,              \* its argument
    ret               \* its outcome

vars == <<vocab, start, object_to_index, index_to_object, vocab_size,
          not_in_index, op, arg, ret>>

index == <<start, object_to_index, index_to_object, vocab_size, not_in_index>>

----------------------------------------------------------------------------
\* Helpers: bounded input sets.

RECURSIVE SeqsUpTo(_, _)
SeqsUpTo(S, n) ==
    IF n = 0 THEN {<<>>}
    ELSE LET shorter == SeqsUpTo(S, n - 1)
         IN  shorter \cup {Append(s, x) : s \in {t \in shorter : Len(t) = n - 1}, x \in S}

Range(s) == {s[p] : p \in 1..Len(s)}

Starts == (0 - MaxStart)..MaxStart
Vocabs == SeqsUpTo(Objects, MaxVocabLen)
ObjectSeqs == SeqsUpTo(Objects, MaxSeqLen)

\* Ragged batches of object sequences (rows over two of the objects).
RowObjects == {"a", "c"}
ObjectRows == SeqsUpTo(RowObjects, MaxRowLen)
ObjectSeqSeqs == SeqsUpTo(ObjectRows, MaxRows)

\* Rectangular arrays of at most MaxRows rows and MaxRowLen columns.
Matrices(cells) ==
    UNION {SeqsUpTo({row \in SeqsUpTo(cells, cols) : Len(row) = cols}, MaxRows) :
              cols \in 0..MaxRowLen}

\* Index arrays: the pad value, every assigned index and the first integer
\* above them; in a matrix, the pad value and the first assigned index.
IndexValues == not_in_index..(start + vocab_size)
IndexVectors == SeqsUpTo(IndexValues, MaxRowLen)
IndexMatrices == Matrices({not_in_index, start})

\* Binary arrays, whose cells may hold values other than 0 and 1.
BinaryVectors == SeqsUpTo({0, 1, 2}, MaxSeqLen)
BinaryMatrices == Matrices({0, 1})

----------------------------------------------------------------------------
\* Outcomes of a call.

\* `by` names what raised: a `raise` statement of the method, or the builtin or
\* numpy call that failed.
Ok(v) == [kind |-> "ok", val |-> v, err |-> "none", by |-> "none"]
Raise(e, by) == [kind |-> "raise", val |-> <<>>, err |-> e, by |-> by]

----------------------------------------------------------------------------
\* dict operations.

EmptyDict == <<>>

\* d[k] = v
setitem(d, k, v) == (k :> v) @@ d

\* d.get(k, default): the value returned.
get(d, k, default) == IF k \in DOMAIN d THEN d[k] ELSE default

\* d.setdefault(k, default) would leave this dict; d.get(k, default) does not.
after_setdefault(d, k, default) ==
    IF k \in DOMAIN d THEN d ELSE setitem(d, k, default)

\* d.get(k, default): the dict it leaves.
after_get(d, k, default) == d

\* The dict left by d.get(k, default) for each k of keys, in order.
RECURSIVE after_gets(_, _, _)
after_gets(d, keys, default) ==
    IF keys = <<>> THEN d
    ELSE after_gets(after_get(d, Head(keys), default), Tail(keys), default)

RECURSIVE Flatten(_)
Flatten(seqs) == IF seqs = <<>> THEN <<>> ELSE Head(seqs) \o Flatten(Tail(seqs))

Max(S) == CHOOSE x \in S : \A y \in S : y <= x

----------------------------------------------------------------------------
\* numpy arrays.

\* np.zeros(n, dtype=int) and np.full(n, v, dtype=int), for n >= 0.
np_full(n, v) == [p \in 1..n |-> v]
np_zeros(n) == np_full(n, 0)

\* The position (from 1) that a[idx] names in an array of length n: a negative
\* idx counts from the end; 0 when idx is out of bounds (IndexError).
np_position(n, idx) ==
    IF 0 <= idx /\ idx < n THEN idx + 1
    ELSE IF 0 - n <= idx /\ idx < 0 THEN n + idx + 1
    ELSE 0

\* a[:len(values)] = values, for len(values) <= len(a).
np_assign_prefix(a, values) ==
    [p \in 1..Len(a) |-> IF p <= Len(values) THEN values[p] ELSE a[p]]

----------------------------------------------------------------------------
\* Index.__init__

\* The iteration without the test `obj not in self.object_to_index`.
init_step_no_check(acc, obj) ==
    [object_to_index |-> setitem(acc.object_to_index, obj, acc.idx),
     index_to_object |-> setitem(acc.index_to_object, acc.idx, obj),
     idx |-> acc.idx + 1]

\* The iteration with `idx += 1` outside the test.
init_step_count_all(acc, obj) ==
    IF obj \notin DOMAIN acc.object_to_index
    THEN [object_to_index |-> setitem(acc.object_to_index, obj, acc.idx),
          index_to_object |-> setitem(acc.index_to_object, acc.idx, obj),
          idx |-> acc.idx + 1]
    ELSE [acc EXCEPT !.idx = acc.idx + 1]

\* One iteration of the loop over vocab; acc holds the two dicts and idx.
init_step(acc, obj) ==
    IF obj \notin DOMAIN acc.object_to_index
    THEN [object_to_index |-> setitem(acc.object_to_index, obj, acc.idx),
          index_to_object |-> setitem(acc.index_to_object, acc.idx, obj),
          idx |-> acc.idx + 1]
    ELSE acc

RECURSIVE init_loop(_, _, _)
init_loop(vocab_, p, acc) ==
    IF p > Len(vocab_) THEN acc
    ELSE init_loop(vocab_, p + 1, init_step(acc, vocab_[p]))

\* The fields of the object the constructor leaves.
init(vocab_, start_) ==
    LET acc == init_loop(vocab_, 1,
                   [object_to_index |-> EmptyDict, index_to_object |-> EmptyDict,
                    idx |-> start_])
    IN  [start |-> start_,
         object_to_index |-> acc.object_to_index,
         index_to_object |-> acc.index_to_object,
         vocab_size |-> acc.idx - start_,
         not_in_index |-> start_ - 1]

Init ==
    \E vocab_ \in Vocabs, start_ \in Starts :
        LET self == init(vocab_, start_)
        IN  /\ vocab = vocab_
            /\ start = self.start
            /\ object_to_index = self.object_to_index
            /\ index_to_object = self.index_to_object
            /\ vocab_size = self.vocab_size
            /\ not_in_index = self.not_in_index
            /\ op = "none"
            /\ arg = <<>>
            /\ ret = Ok(<<>>)

----------------------------------------------------------------------------
\* Index.objects_to_indexes

\* The comprehension with -1 for the default.
indexes_of_minus_one(seq) ==
    [p \in 1..Len(seq) |-> get(object_to_index, seq[p], 0 - 1)]

\* The list the comprehension builds.
indexes_of(seq) ==
    [p \in 1..Len(seq) |-> get(object_to_index, seq[p], not_in_index)]

objects_to_indexes(object_seq) == Ok(indexes_of(object_seq))

Call_objects_to_indexes ==
    /\ op = "none"
    /\ \E object_seq \in ObjectSeqs :
        /\ op' = "objects_to_indexes"
        /\ arg' = object_seq
        /\ ret' = objects_to_indexes(object_seq)
        /\ object_to_index' = after_gets(object_to_index, object_seq, not_in_index)
    /\ UNCHANGED <<vocab, start, index_to_object, vocab_size, not_in_index>>

----------------------------------------------------------------------------
\* Index.objects_to_index_matrix

\* The row over a matrix of np.zeros.
index_matrix_row_zeros(seq, max_length) ==
    np_assign_prefix(np_zeros(max_length), indexes_of(seq))

\* The row of the matrix for seq: its indexes over the filled row.
index_matrix_row(seq, max_length) ==
    np_assign_prefix(np_full(max_length, not_in_index), indexes_of(seq))

\* max() of no lengths raises ValueError, before any lookup.
objects_to_index_matrix(object_seq_seq) ==
    IF object_seq_seq = <<>> THEN Raise("ValueError", "max")
    ELSE LET max_length == Max({Len(seq) : seq \in Range(object_seq_seq)})
         IN  Ok([i \in 1..Len(object_seq_seq) |->
                    index_matrix_row(object_seq_seq[i], max_length)])

Call_objects_to_index_matrix ==
    /\ op = "none"
    /\ \E object_seq_seq \in ObjectSeqSeqs :
        /\ op' = "objects_to_index_matrix"
        /\ arg' = object_seq_seq
        /\ ret' = objects_to_index_matrix(object_seq_seq)
        /\ object_to_index' =
               after_gets(object_to_index, Flatten(object_seq_seq), not_in_index)
    /\ UNCHANGED <<vocab, start, index_to_object, vocab_size, not_in_index>>

----------------------------------------------------------------------------
\* Index.objects_to_binary_vector

\* vector[idx] += 1
vector_increment(vector, pos) == [vector EXCEPT ![pos] = @ + 1]

\* vector[idx] = 1, for the position idx names.
vector_set(vector, pos) == [vector EXCEPT ![pos] = 1]

\* The loop over object_seq from position p on, with the vector so far: the
\* outcome, and `looked`, the number of objects looked up when it ended.
\* vector[idx] = 1 raises IndexError when idx is out of the vector's bounds.
RECURSIVE binary_vector_loop(_, _, _)
binary_vector_loop(object_seq, p, vector) ==
    IF p > Len(object_seq) THEN [out |-> Ok(vector), looked |-> p - 1]
    ELSE LET obj == object_seq[p]
         IN  IF obj \notin DOMAIN object_to_index
             THEN binary_vector_loop(object_seq, p + 1, vector)
             ELSE LET pos == np_position(Len(vector), object_to_index[obj])
                  IN  IF pos = 0
                      THEN [out |-> Raise("IndexError", "vector[idx] = 1"), looked |-> p]
                      ELSE binary_vector_loop(object_seq, p + 1,
                                              vector_set(vector, pos))

\* np.zeros raises ValueError for a negative length, before any lookup.
binary_vector_run(object_seq) ==
    IF vocab_size + start < 0
    THEN [out |-> Raise("ValueError", "np.zeros"), looked |-> 0]
    ELSE binary_vector_loop(object_seq, 1, np_zeros(vocab_size + start))

objects_to_binary_vector(object_seq) == binary_vector_run(object_seq).out

Call_objects_to_binary_vector ==
    /\ op = "none"
    /\ \E object_seq \in ObjectSeqs :
        /\ op' = "objects_to_binary_vector"
        /\ arg' = object_seq
        /\ ret' = objects_to_binary_vector(object_seq)
        /\ object_to_index' =
               after_gets(object_to_index,
                          SubSeq(object_seq, 1, binary_vector_run(object_seq).looked),
                          not_in_index)
    /\ UNCHANGED <<vocab, start, index_to_object, vocab_size, not_in_index>>

----------------------------------------------------------------------------
\* Index.objects_to_binary_matrix

\* The loop over the rows from row i on, with the rows filled so far: a row's
\* exception ends the call.
RECURSIVE binary_matrix_loop(_, _, _, _)
binary_matrix_loop(object_seq_seq, i, matrix, looked) ==
    IF i > Len(object_seq_seq) THEN [out |-> Ok(matrix), looked |-> looked]
    ELSE LET run == binary_vector_run(object_seq_seq[i])
             seen == looked \o SubSeq(object_seq_seq[i], 1, run.looked)
         IN  IF run.out.kind = "raise" THEN [out |-> run.out, looked |-> seen]
             ELSE binary_matrix_loop(object_seq_seq, i + 1,
                                     [matrix EXCEPT ![i] = run.out.val], seen)

binary_matrix_run(object_seq_seq) ==
    IF vocab_size + start < 0
    THEN [out |-> Raise("ValueError", "np.zeros"), looked |-> <<>>]
    ELSE binary_matrix_loop(object_seq_seq, 1,
             [i \in 1..Len(object_seq_seq) |-> np_zeros(vocab_size + start)], <<>>)

objects_to_binary_matrix(object_seq_seq) == binary_matrix_run(object_seq_seq).out

Call_objects_to_binary_matrix ==
    /\ op = "none"
    /\ \E object_seq_seq \in ObjectSeqSeqs :
        /\ op' = "objects_to_binary_matrix"
        /\ arg' = object_seq_seq
        /\ ret' = objects_to_binary_matrix(object_seq_seq)
        /\ object_to_index' =
               after_gets(object_to_index, binary_matrix_run(object_seq_seq).looked,
                          not_in_index)
    /\ UNCHANGED <<vocab, start, index_to_object, vocab_size, not_in_index>>

----------------------------------------------------------------------------
\* Index.indexes_to_objects

\* The elements of a finite set of integers, in increasing order.
Sorted(P) ==
    [k \in 1..Cardinality(P) |-> CHOOSE i \in P : Cardinality({j \in P : j < i}) = k - 1]

\* A comprehension over the dict's keys: the objects come in index order.
objects_of_by_index(index_vector) ==
    LET known == Sorted(Range(index_vector) \cap DOMAIN index_to_object)
    IN  [p \in 1..Len(known) |-> index_to_object[known[p]]]

\* The list the comprehension builds.
objects_of(index_vector) ==
    LET known == SelectSeq(index_vector, LAMBDA idx : idx \in DOMAIN index_to_object)
    IN  [p \in 1..Len(known) |-> index_to_object[known[p]]]

indexes_to_objects(index_vector) == Ok(objects_of(index_vector))

Call_indexes_to_objects ==
    /\ op = "none"
    /\ \E index_vector \in IndexVectors :
        /\ op' = "indexes_to_objects"
        /\ arg' = index_vector
        /\ ret' = indexes_to_objects(index_vector)
    /\ UNCHANGED <<vocab, index>>

----------------------------------------------------------------------------
\* Index.index_matrix_to_objects

index_matrix_to_objects(index_matrix) ==
    Ok([i \in 1..Len(index_matrix) |-> indexes_to_objects(index_matrix[i]).val])

Call_index_matrix_to_objects ==
    /\ op = "none"
    /\ \E index_matrix \in IndexMatrices :
        /\ op' = "index_matrix_to_objects"
        /\ arg' = index_matrix
        /\ ret' = index_matrix_to_objects(index_matrix)
    /\ UNCHANGED <<vocab, index>>

----------------------------------------------------------------------------
\* Index.binary_vector_to_objects

\* The comprehension with the test `val` for `val == 1`.
set_objects_of_truthy(vec) ==
    LET set == SelectSeq([p \in 1..Len(vec) |-> p - 1],
                         LAMBDA idx : vec[idx + 1] # 0 /\ idx \in DOMAIN index_to_object)
    IN  [p \in 1..Len(set) |-> index_to_object[set[p]]]

\* The list the comprehension builds: enumerate(vec) counts from 0.
set_objects_of(vec) ==
    LET set == SelectSeq([p \in 1..Len(vec) |-> p - 1],
                         LAMBDA idx : vec[idx + 1] = 1 /\ idx \in DOMAIN index_to_object)
    IN  [p \in 1..Len(set) |-> index_to_object[set[p]]]

binary_vector_to_objects(vec) == Ok(set_objects_of(vec))

Call_binary_vector_to_objects ==
    /\ op = "none"
    /\ \E vec \in BinaryVectors :
        /\ op' = "binary_vector_to_objects"
        /\ arg' = vec
        /\ ret' = binary_vector_to_objects(vec)
    /\ UNCHANGED <<vocab, index>>

----------------------------------------------------------------------------
\* Index.binary_matrix_to_objects

binary_matrix_to_objects(binary_matrix) ==
    Ok([i \in 1..Len(binary_matrix) |-> binary_vector_to_objects(binary_matrix[i]).val])

Call_binary_matrix_to_objects ==
    /\ op = "none"
    /\ \E binary_matrix \in BinaryMatrices :
        /\ op' = "binary_matrix_to_objects"
        /\ arg' = binary_matrix
        /\ ret' = binary_matrix_to_objects(binary_matrix)
    /\ UNCHANGED <<vocab, index>>

----------------------------------------------------------------------------
\* The call returns: the caller takes the outcome and may call again.
Return ==
    /\ op # "none"
    /\ op' = "none"
    /\ arg' = <<>>
    /\ ret' = Ok(<<>>)
    /\ UNCHANGED <<vocab, index>>

Next ==
    \/ Call_objects_to_indexes
    \/ Call_objects_to_index_matrix
    \/ Call_objects_to_binary_vector
    \/ Call_objects_to_binary_matrix
    \/ Call_indexes_to_objects
    \/ Call_index_matrix_to_objects
    \/ Call_binary_vector_to_objects
    \/ Call_binary_matrix_to_objects
    \/ Return

Spec == Init /\ [][Next]_vars

----------------------------------------------------------------------------
\* Properties.

InVocab(obj) == obj \in DOMAIN object_to_index

\* The position of the first occurrence of obj in vocab, and the number of
\* distinct objects of vocab up to it.
FirstPos(obj) == CHOOSE p \in 1..Len(vocab) :
                     vocab[p] = obj /\ \A q \in 1..(p - 1) : vocab[q] # obj
Rank(obj) == Cardinality({vocab[q] : q \in 1..FirstPos(obj)})

\* seq without the later occurrences of its elements.
Dedup(seq) == SelectSeq([p \in 1..Len(seq) |-> <<p, seq[p]>>],
                  LAMBDA e : \A q \in 1..(e[1] - 1) : seq[q] # e[2])
DedupSeq(seq) == [p \in 1..Len(Dedup(seq)) |-> Dedup(seq)[p][2]]

\* C1: object_to_index and index_to_object are exact inverses of one another:
\* object_to_index[o] = i if and only if index_to_object[i] = o, so the two maps
\* have the same number of entries and no two objects share an index.
C1_ExactInverses ==
    /\ \A o \in DOMAIN object_to_index :
          /\ object_to_index[o] \in DOMAIN index_to_object
          /\ index_to_object[object_to_index[o]] = o
    /\ \A i \in DOMAIN index_to_object :
          /\ index_to_object[i] \in DOMAIN object_to_index
          /\ object_to_index[index_to_object[i]] = i
    /\ Cardinality(DOMAIN object_to_index) = Cardinality(DOMAIN index_to_object)
    /\ \A o1, o2 \in DOMAIN object_to_index :
          object_to_index[o1] = object_to_index[o2] => o1 = o2

\* An index built from a vocabulary that repeats an object, at a negative start.
C1_Witness ==
    /\ Len(vocab) = 3
    /\ Cardinality(DOMAIN object_to_index) = 2
    /\ vocab[1] = vocab[3]
    /\ start < 0

\* C2: the k-th distinct object of vocab in first-occurrence order has the index
\* start + k - 1, the assigned indexes are exactly start..start + vocab_size - 1,
\* and vocab_size is the number of distinct objects of vocab.
C2_FirstOccurrenceOrder ==
    /\ DOMAIN object_to_index = Range(vocab)
    /\ \A o \in Range(vocab) : object_to_index[o] = start + Rank(o) - 1
    /\ {object_to_index[o] : o \in DOMAIN object_to_index}
           = start..(start + vocab_size - 1)
    /\ DOMAIN index_to_object = start..(start + vocab_size - 1)
    /\ vocab_size = Cardinality(Range(vocab))

\* The vocabulary b, a, b at start 0: b has index 0 and a has index 1.
C2_Witness ==
    /\ vocab = <<"b", "a", "b">>
    /\ start = 0
    /\ object_to_index["b"] = 0
    /\ object_to_index["a"] = 1
    /\ vocab_size = 2
    /\ not_in_index = 0 - 1

\* C3: objects_to_indexes(S) has the length of S; position p holds
\* object_to_index[S[p]] when S[p] is in the vocabulary and start - 1 when it is
\* not, and it holds not_in_index if and only if S[p] is out of the vocabulary.
C3_ObjectsToIndexes ==
    op = "objects_to_indexes" =>
        /\ ret.kind = "ok"
        /\ Len(ret.val) = Len(arg)
        /\ not_in_index = start - 1
        /\ \A p \in 1..Len(arg) :
              /\ InVocab(arg[p]) => ret.val[p] = object_to_index[arg[p]]
              /\ ~InVocab(arg[p]) => ret.val[p] = start - 1
              /\ ret.val[p] = not_in_index <=> ~InVocab(arg[p])

\* A call with objects in and out of the vocabulary, at a start other than 0.
C3_Witness ==
    /\ op = "objects_to_indexes"
    /\ Len(arg) = 3
    /\ InVocab(arg[1]) /\ ~InVocab(arg[2]) /\ InVocab(arg[3])
    /\ start = 1
    /\ ret.val[2] = 0

\* C4: for a non-empty SS, objects_to_index_matrix(SS) has len(SS) rows and as
\* many columns as the longest sequence of SS; row r holds the indexes of SS[r]
\* in order in its first len(SS[r]) cells and not_in_index in every cell after.
C4_IndexMatrix ==
    (op = "objects_to_index_matrix" /\ arg # <<>>) =>
        /\ ret.kind = "ok"
        /\ Len(ret.val) = Len(arg)
        /\ \A r \in 1..Len(arg) :
              /\ Len(ret.val[r]) = Max({Len(arg[q]) : q \in 1..Len(arg)})
              /\ \A j \in 1..Len(arg[r]) :
                    ret.val[r][j] = IF InVocab(arg[r][j])
                                    THEN object_to_index[arg[r][j]]
                                    ELSE not_in_index
              /\ \A j \in (Len(arg[r]) + 1)..Len(ret.val[r]) :
                    ret.val[r][j] = not_in_index

\* A batch of a sequence of one known object and a longer sequence: the first
\* row is padded with not_in_index.
C4_Witness ==
    /\ op = "objects_to_index_matrix"
    /\ Len(arg) = 2
    /\ Len(arg[1]) = 1 /\ Len(arg[2]) = 2
    /\ InVocab(arg[1][1])
    /\ ret.kind = "ok"
    /\ ret.val[1] = <<object_to_index[arg[1][1]], start - 1>>
    /\ start = 0

\* C5: with start >= 0, objects_to_binary_vector(S) has the length
\* vocab_size + start, every cell is 0 or 1, the cell at position i is 1 if and
\* only if an object of S has the index i, the lowest start positions are 0, and
\* S without its repeated objects yields the same vector.
C5_BinaryVector ==
    (op = "objects_to_binary_vector" /\ start >= 0) =>
        /\ ret.kind = "ok"
        /\ Len(ret.val) = vocab_size + start
        /\ \A i \in 0..(Len(ret.val) - 1) :
              /\ ret.val[i + 1] \in {0, 1}
              /\ ret.val[i + 1] = 1 <=>
                    \E p \in 1..Len(arg) : InVocab(arg[p]) /\ object_to_index[arg[p]] = i
              /\ i < start => ret.val[i + 1] = 0
        /\ objects_to_binary_vector(DedupSeq(arg)) = ret

\* A call at start 1 with a repeated known object and an unknown object.
C5_Witness ==
    /\ op = "objects_to_binary_vector"
    /\ start = 1
    /\ Len(arg) = 3
    /\ arg[1] = arg[3] /\ InVocab(arg[1]) /\ ~InVocab(arg[2])
    /\ ret.kind = "ok"
    /\ ret.val[object_to_index[arg[1]] + 1] = 1
    /\ ret.val[1] = 0

\* The positions of v that binary_vector_to_objects is to report.
SetPositions(v) ==
    {i \in 0..(Len(v) - 1) : v[i + 1] = 1 /\ i \in DOMAIN index_to_object}

C7_RoundTrip ==
    (op = "objects_to_indexes" /\ \A p \in 1..Len(arg) : InVocab(arg[p])) =>
        /\ ret.kind = "ok"
        /\ indexes_to_objects(ret.val) = Ok(arg)

\* A sequence of known objects with a repeated object, not in index order.
C7_Witness ==
    /\ op = "objects_to_indexes"
    /\ Len(arg) = 3
    /\ \A p \in 1..Len(arg) : InVocab(arg[p])
    /\ arg[1] = arg[3] /\ arg[1] # arg[2]
    /\ object_to_index[arg[1]] > object_to_index[arg[2]]
    /\ ret.kind = "ok"

\* C8: objects_to_index_matrix of an empty outer sequence is handled explicitly:
\* the outcome is a failure the method raises itself or a matrix of zero rows,
\* never the error of computing the maximum of no lengths.
C8_EmptyOuterHandled ==
    (op = "objects_to_index_matrix" /\ arg = <<>>) =>
        \/ ret.kind = "raise" /\ ret.by = "raise"
        \/ ret.kind = "ok" /\ ret.val = <<>>

\* C9: every operation returns a result without raising, but for
\* objects_to_index_matrix of an empty outer sequence, also when start is
\* negative; objects_to_binary_vector writes only at the positions that are the
\* indexes of the input's objects.
C9_Total ==
    /\ (op # "none" /\ ~(op = "objects_to_index_matrix" /\ arg = <<>>)) =>
           ret.kind = "ok"
    /\ (op = "objects_to_binary_vector" /\ ret.kind = "ok") =>
           \A i \in 0..(Len(ret.val) - 1) :
               ret.val[i + 1] = 1 =>
                   \E p \in 1..Len(arg) : InVocab(arg[p]) /\ object_to_index[arg[p]] = i

\* C10: no call changes start, vocab_size, not_in_index, object_to_index or
\* index_to_object; a lookup that misses inserts nothing.
C10_Immutable == [][UNCHANGED index]_vars

\* A call has looked up an object that is not in the vocabulary.
C10_Witness ==
    /\ op \in {"objects_to_indexes", "objects_to_index_matrix",
               "objects_to_binary_vector", "objects_to_binary_matrix"}
    /\ \E o \in Range(IF op \in {"objects_to_indexes", "objects_to_binary_vector"}
                      THEN arg ELSE Flatten(arg)) : ~InVocab(o)
    /\ ret.kind = "ok"

====
